---- MODULE Spec2Model ----
(***************************************************************************)
(* State-machine model of ssm_jax/hmm/models/base.py: BaseHMM (statistic   *)
(* extractors, e_step, generic m_step, fit_em, fit_sgd) and StandardHMM    *)
(* (constructor, conjugate M-step, emission M-step).                       *)
(*                                                                         *)
(* Numbers.  A probability vector is [num |-> <<n1..nK>>, den |-> d],      *)
(* entry i being ni/d; the NaN vector has den = 0.  Concentrations and     *)
(* Dirichlet parameters are in tenths (1.1 is 11).  A sum of logarithms is *)
(* the sequence of its arguments, each a pair <<num, den>>.                *)
(* Emissions are the "fully observed assignment" family of the             *)
(* specification: the emission at time t names the hidden state, so the    *)
(* smoothed marginals are one-hot and expected counts are integers.        *)
(***************************************************************************)
EXTENDS Integers, Sequences, FiniteSets, TLC

\* ------------------------------------------------------------------ bounds
MaxIters == 2
MaxCalls == 2

\* --------------------------------------------------------------- constants
DefaultConcentration == 11

\* ----------------------------------------------------------------- helpers
RECURSIVE SumSeq(_)
SumSeq(s) == IF s = <<>> THEN 0 ELSE Head(s) + SumSeq(Tail(s))

Last(s) == s[Len(s)]

NaNVec(k) == [num |-> [i \in 1..k |-> 0], den |-> 0]

IsNaN(v) == v.den = 0

SumsToOne(v) == v.den > 0 /\ SumSeq(v.num) = v.den /\ \A i \in 1..Len(v.num) : v.num[i] >= 0

ParamNames == {"initial_probs", "transition_matrix", "initial_probs_concentration",
               "transition_matrix_concentration", "emission"}

\* ------------------------------------------------------------------ inputs
\* Arrays handed to the constructor: a shape and a row-major buffer.
InitialProbabilityChoices ==
    { [shape |-> <<2>>,    num |-> <<1, 1>>,    den |-> 2],
      [shape |-> <<2>>,    num |-> <<1, 3>>,    den |-> 4],
      [shape |-> <<3>>,    num |-> <<1, 1, 2>>, den |-> 4],
      [shape |-> <<1, 2>>, num |-> <<1, 1>>,    den |-> 2] }

TransitionMatrixChoices ==
    { [shape |-> <<2, 2>>, num |-> <<9, 1, 1, 9>>, den |-> 10],
      [shape |-> <<3, 3>>, num |-> <<8, 1, 1, 1, 8, 1, 1, 1, 8>>, den |-> 10],
      [shape |-> <<2, 3>>, num |-> <<1, 1, 2, 2, 1, 1>>, den |-> 4],
      [shape |-> <<2>>,    num |-> <<1, 1>>, den |-> 2] }

ConcentrationChoices == {10, DefaultConcentration}

\* Concrete classes: a StandardHMM subclass (with or without a method named
\* _conditional_logliks), or a BaseHMM subclass that keeps the generic m_step
\* and a covariate-aware transition_distribution.
ClassChoices ==
    { [class |-> "StandardHMM", has_conditional_logliks |-> FALSE],
      [class |-> "StandardHMM", has_conditional_logliks |-> TRUE],
      [class |-> "BaseHMM",     has_conditional_logliks |-> FALSE] }

\* Batches of N emission sequences of one length T (N, T in 1..3); the
\* emission at time t names the hidden state.
Batches ==
    { << <<1>> >>,
      << <<2, 1>> >>,
      << <<1, 1>>, <<2, 1>> >>,
      << <<1, 2, 2>>, <<1, 1, 2>>, <<2, 1, 1>> >> }

\* num_mstep_iters (m_step, fit_em) and num_epochs (fit_sgd).
SgdIterChoices == {0, 1}

CovariateChoices == { <<>>, << <<0, 1>> >> }

\* ------------------------------------------------------------------- state
VARIABLES model, status, ctor_args, conc0, batch_emissions,
          posteriors, fit, calls, last, tm_result, loss

vars == <<model, status, ctor_args, conc0, batch_emissions,
          posteriors, fit, calls, last, tm_result, loss>>

EmptyModel ==
    [class |-> "", has_conditional_logliks |-> FALSE,
     value |-> [n \in ParamNames |-> <<>>],
     is_frozen |-> [n \in ParamNames |-> FALSE]]

\* ------------------------------------------------- StandardHMM.__init__
\* Mutant: the assertion on the initial-probability shape is missing.
ShapesOk_InitialUnchecked(initial_probabilities, transition_matrix) ==
    LET num_states == Last(transition_matrix.shape)
    IN  transition_matrix.shape = <<num_states, num_states>>

ShapesOk(initial_probabilities, transition_matrix) ==
    LET num_states == Last(transition_matrix.shape)
    IN  /\ initial_probabilities.shape = <<num_states>>
        /\ transition_matrix.shape = <<num_states, num_states>>

NewModel(cls, initial_probabilities, transition_matrix, initial_probs_concentration, transition_matrix_concentration) ==
    LET num_states == Last(transition_matrix.shape)
    IN  [class |-> cls.class,
         has_conditional_logliks |-> cls.has_conditional_logliks,
         value |->
           [initial_probs |-> [num |-> initial_probabilities.num,
                               den |-> initial_probabilities.den],
            transition_matrix |->
              [i \in 1..num_states |->
                 [num |-> SubSeq(transition_matrix.num,
                                 (i - 1) * num_states + 1, i * num_states),
                  den |-> transition_matrix.den]],
            initial_probs_concentration |->
              [i \in 1..num_states |-> initial_probs_concentration],
            transition_matrix_concentration |->
              [i \in 1..num_states |-> transition_matrix_concentration],
            emission |-> 0],
         is_frozen |->
           [initial_probs |-> FALSE,
            transition_matrix |-> FALSE,
            initial_probs_concentration |-> TRUE,
            transition_matrix_concentration |-> TRUE,
            emission |-> FALSE]]

\* ------------------------------------------ Parameter / flattened vector
ToUnconstrained(name, v) ==
    CASE name = "initial_probs" -> v.num
      [] name = "transition_matrix" -> [i \in 1..Len(v) |-> v[i].num]
      [] OTHER -> v

FromUnconstrained(name, u) ==
    CASE name = "initial_probs" -> [num |-> u, den |-> SumSeq(u)]
      [] name = "transition_matrix" ->
           [i \in 1..Len(u) |-> [num |-> u[i], den |-> SumSeq(u[i])]]
      [] OTHER -> u

UnconstrainedParams(m) ==
    [n \in {x \in ParamNames : ~m.is_frozen[x]} |-> ToUnconstrained(n, m.value[n])]

SetUnconstrainedParams(m, params) ==
    [m EXCEPT !.value =
        [n \in ParamNames |->
            IF n \in DOMAIN params THEN FromUnconstrained(n, params[n])
            ELSE m.value[n]]]

\* --------------------------------------------------------- BaseHMM helpers
NumStates(m) == Len(m.value.initial_probs.num)

ComputeInitialProbs(m) == m.value.initial_probs

ComputeTransitionMatrices(m, covs) ==
    IF Len(covs) > 0
    THEN IF m.class = "StandardHMM"
         THEN [error |-> "TypeError", shape |-> <<>>, mats |-> <<>>]
         ELSE [error |-> "",
               shape |-> <<Len(covs[1]), NumStates(m), NumStates(m)>>,
               mats |-> [c \in 1..Len(covs[1]) |-> m.value.transition_matrix]]
    ELSE [error |-> "",
          shape |-> <<NumStates(m), NumStates(m)>>,
          mats |-> m.value.transition_matrix]

\* Likelihood (not log) of each emission under each state: 1 or 0.
ComputeConditionalLogliks(m, emissions) ==
    [t \in 1..Len(emissions) |->
        [k \in 1..NumStates(m) |-> IF emissions[t] = k THEN 1 ELSE 0]]

\* ----------------------------------------------- inference collaborators
LogP(v, k) == <<v.num[k], v.den>>

HmmTwoFilterSmoother(initial_probs, transition_matrix, logliks) ==
    LET T == Len(logliks)
        K == Len(initial_probs.num)
        path == [t \in 1..T |-> CHOOSE k \in 1..K : logliks[t][k] = 1]
        nan == \/ IsNaN(initial_probs)
               \/ (T > 1 /\ \E i \in 1..K : IsNaN(transition_matrix[i]))
        smoothed == IF nan THEN [t \in 1..T |-> [k \in 1..K |-> 0]] ELSE logliks
    IN  [marginal_loglik |->
            IF nan THEN << <<0, 0>> >>
            ELSE <<LogP(initial_probs, path[1])>> \o
                 [t \in 1..(T - 1) |-> LogP(transition_matrix[path[t]], path[t + 1])],
         smoothed_probs |-> smoothed,
         initial_probs |-> smoothed[1],
         nan |-> nan]

ComputeTransitionProbs(transition_matrix, post, reduce_sum) ==
    LET T == Len(post.smoothed_probs)
        K == Len(post.smoothed_probs[1])
        pair(t, i, j) == post.smoothed_probs[t][i] * post.smoothed_probs[t + 1][j]
    IN  IF reduce_sum
        THEN [i \in 1..K |-> [j \in 1..K |->
                 SumSeq([t \in 1..(T - 1) |-> pair(t, i, j)])]]
        ELSE [t \in 1..(T - 1) |-> [i \in 1..K |-> [j \in 1..K |-> pair(t, i, j)]]]

\* ----------------------------------------------------------------- E-step
SingleEStep(m, emissions) ==
    LET tm == ComputeTransitionMatrices(m, <<>>)
        posterior == HmmTwoFilterSmoother(ComputeInitialProbs(m), tm.mats,
                                          ComputeConditionalLogliks(m, emissions))
        reduce_sum == (Len(tm.shape) = 2)
    IN  [marginal_loglik |-> posterior.marginal_loglik,
         smoothed_probs |-> posterior.smoothed_probs,
         initial_probs |-> posterior.initial_probs,
         nan |-> posterior.nan,
         trans_probs |-> ComputeTransitionProbs(tm.mats, posterior, reduce_sum),
         tm_shape |-> tm.shape,
         reduce_sum |-> reduce_sum]

EStep(m, batch) == [n \in 1..Len(batch) |-> SingleEStep(m, batch[n])]

\* ------------------------------------------------------------- optimizer
Nudge(name, u) ==
    CASE name = "transition_matrix" ->
           IF SumSeq(u[1]) = 0 THEN u ELSE [u EXCEPT ![1][1] = @ + 1]
      [] name = "emission" -> u + 1
      [] OTHER -> IF SumSeq(u) = 0 THEN u ELSE [u EXCEPT ![1] = @ + 1]

SgdStep(params) == [n \in DOMAIN params |-> Nudge(n, params[n])]

RECURSIVE SgdSteps(_, _)
SgdSteps(params, k) == IF k = 0 THEN params ELSE SgdSteps(SgdStep(params), k - 1)

RunSgd(loss_error, params, evals) ==
    IF evals = 0 THEN [params |-> params, error |-> ""]
    ELSE IF loss_error # "" THEN [params |-> params, error |-> loss_error]
    ELSE [params |-> SgdSteps(params, evals), error |-> ""]

\* ------------------------------------------------------ BaseHMM.m_step
BaseMStep(m, batch, posts, num_mstep_iters) ==
    LET params == UnconstrainedParams(m)
        evals == num_mstep_iters * Len(batch)
        r == RunSgd("", params, evals)
    IN  [model |-> SetUnconstrainedParams(m, r.params),
         error |-> r.error,
         opt_keys |-> DOMAIN params,
         evals |-> evals]

\* --------------------------------------------------- StandardHMM M-step
DirichletMode(alpha, nan) ==
    LET K == Len(alpha)
    IN  IF ~nan /\ \A i \in 1..K : alpha[i] > 10
        THEN [num |-> [i \in 1..K |-> alpha[i] - 10],
              den |-> SumSeq(alpha) - 10 * K]
        ELSE NaNVec(K)

\* Mutant: the posterior concentration is written back over the prior.
M_step_initial_probs_OverwritesPrior(m, posts) ==
    LET K == NumStates(m)
        nan == \E n \in 1..Len(posts) : posts[n].nan
        alpha == [i \in 1..K |->
                    m.value.initial_probs_concentration[i]
                    + 10 * SumSeq([n \in 1..Len(posts) |-> posts[n].initial_probs[i]])]
    IN  [m EXCEPT !.value.initial_probs = DirichletMode(alpha, nan),
                  !.value.initial_probs_concentration = alpha]

M_step_initial_probs(m, posts) ==
    LET K == NumStates(m)
        nan == \E n \in 1..Len(posts) : posts[n].nan
        alpha == [i \in 1..K |->
                    m.value.initial_probs_concentration[i]
                    + 10 * SumSeq([n \in 1..Len(posts) |-> posts[n].initial_probs[i]])]
    IN  [m EXCEPT !.value.initial_probs = DirichletMode(alpha, nan)]

\* Mutant: the prior concentration is left out of the posterior.
M_step_transition_matrix_NoPrior(m, posts) ==
    LET K == NumStates(m)
        nan == \E n \in 1..Len(posts) : posts[n].nan
        alpha(i) == [j \in 1..K |->
                       10 * SumSeq([n \in 1..Len(posts) |-> posts[n].trans_probs[i][j]])]
    IN  [m EXCEPT !.value.transition_matrix =
            [i \in 1..K |-> DirichletMode(alpha(i), nan)]]

M_step_transition_matrix(m, posts) ==
    LET K == NumStates(m)
        nan == \E n \in 1..Len(posts) : posts[n].nan
        alpha(i) == [j \in 1..K |->
                       m.value.transition_matrix_concentration[j]
                       + 10 * SumSeq([n \in 1..Len(posts) |-> posts[n].trans_probs[i][j]])]
    IN  [m EXCEPT !.value.transition_matrix =
            [i \in 1..K |-> DirichletMode(alpha(i), nan)]]

\* Mutant: the accumulator is initialised and the extractor's name is right.
SingleExpectedLogLike_Initialized(m) == ""

\* _single_expected_log_like: the error every evaluation ends in.
SingleExpectedLogLike(m) ==
    IF ~m.has_conditional_logliks THEN "AttributeError" ELSE "UnboundLocalError"

M_step_emissions(m, batch, posts, num_mstep_iters) ==
    LET params == UnconstrainedParams(m)
        evals == num_mstep_iters * Len(batch)
        r == RunSgd(SingleExpectedLogLike(m), params, evals)
    IN  [model |-> IF r.error = "" THEN SetUnconstrainedParams(m, r.params) ELSE m,
         error |-> r.error,
         opt_keys |-> DOMAIN params,
         evals |-> evals]

StandardMStep(m, batch, posts, num_mstep_iters) ==
    LET m1 == M_step_initial_probs(m, posts)
        m2 == M_step_transition_matrix(m1, posts)
    IN  M_step_emissions(m2, batch, posts, num_mstep_iters)

MStep(m, batch, posts, num_mstep_iters) ==
    IF m.class = "StandardHMM"
    THEN StandardMStep(m, batch, posts, num_mstep_iters)
    ELSE BaseMStep(m, batch, posts, num_mstep_iters)

\* ---------------------------------------------------------------- fit_em
LogPrior(m) == m.value

LogJoint(m, posts) ==
    [log_prior |-> LogPrior(m),
     marginal_loglik |-> [n \in 1..Len(posts) |-> posts[n].marginal_loglik]]

\* Mutant: the log joint is taken after the M-step.
EmStep_LogJointAfterMStep(m, params, batch, num_mstep_iters) ==
    LET m1 == SetUnconstrainedParams(m, params)
        batch_posteriors == EStep(m1, batch)
        r == MStep(m1, batch, batch_posteriors, num_mstep_iters)
        lp == LogJoint(r.model, batch_posteriors)
    IN  [model |-> r.model,
         posteriors |-> batch_posteriors,
         params |-> UnconstrainedParams(r.model),
         lp |-> lp,
         error |-> r.error,
         opt_keys |-> r.opt_keys,
         evals |-> r.evals]

EmStep(m, params, batch, num_mstep_iters) ==
    LET m1 == SetUnconstrainedParams(m, params)
        batch_posteriors == EStep(m1, batch)
        lp == LogJoint(m1, batch_posteriors)
        r == MStep(m1, batch, batch_posteriors, num_mstep_iters)
    IN  [model |-> r.model,
         posteriors |-> batch_posteriors,
         params |-> UnconstrainedParams(r.model),
         lp |-> lp,
         error |-> r.error,
         opt_keys |-> r.opt_keys,
         evals |-> r.evals]

\* ---------------------------------------------------------- loss functions
\* Both return the rational -(log_prior + sum * N / B) / size.
\* Mutant: the log-prior is scaled along with the data term.
NegExpectedLogJoint_PriorScaled(log_prior, minibatch_lps, N, size) ==
    LET B == Len(minibatch_lps)
    IN  [num |-> 0 - ((log_prior + SumSeq(minibatch_lps)) * N),
         den |-> B * size]

NegExpectedLogJoint(log_prior, minibatch_lps, N, size) ==
    LET B == Len(minibatch_lps)
    IN  [num |-> 0 - (log_prior * B + SumSeq(minibatch_lps) * N),
         den |-> B * size]

LossFn(log_prior, minibatch_lls, N, size) ==
    LET B == Len(minibatch_lls)
    IN  [num |-> 0 - (log_prior * B + SumSeq(minibatch_lls) * N),
         den |-> B * size]

\* -------------------------------------------------------------------- Init
FitIdle ==
    [pc |-> "idle", params |-> <<>>, log_probs |-> <<>>, i |-> 0,
     num_iters |-> 0, mstep_iters |-> 0, loaded |-> <<>>, produced |-> <<>>]

LastNone == [op |-> "none", iters |-> 0, error |-> "", fresh |-> FALSE,
             opt_keys |-> {}, evals |-> 0]

LossIdle == [kind |-> "none", log_prior |-> 0, terms |-> <<>>, batch_size |-> 1,
             vals |-> <<>>]

NoResult == [error |-> "", shape |-> <<>>, mats |-> <<>>, covs |-> <<>>]

Init ==
    /\ model = EmptyModel
    /\ status = "unbuilt"
    /\ ctor_args = [initial_shape |-> <<>>, transition_shape |-> <<>>]
    /\ conc0 = [initial |-> <<>>, transition |-> <<>>]
    /\ batch_emissions \in Batches
    /\ posteriors = <<>>
    /\ fit = FitIdle
    /\ calls = 0
    /\ last = LastNone
    /\ tm_result = NoResult
    /\ loss = LossIdle

\* ----------------------------------------------------------------- actions
Construct ==
    /\ status = "unbuilt"
    /\ \E cls \in ClassChoices,
          ip \in InitialProbabilityChoices,
          tm \in TransitionMatrixChoices,
          c1 \in ConcentrationChoices,
          c2 \in ConcentrationChoices :
          /\ ctor_args' = [initial_shape |-> ip.shape, transition_shape |-> tm.shape]
          /\ IF ShapesOk(ip, tm)
             THEN /\ model' = NewModel(cls, ip, tm, c1, c2)
                  /\ status' = "ok"
                  /\ conc0' = [initial |-> model'.value.initial_probs_concentration,
                               transition |-> model'.value.transition_matrix_concentration]
             ELSE /\ model' = model
                  /\ status' = "AssertionError"
                  /\ conc0' = conc0
    /\ UNCHANGED <<batch_emissions, posteriors, fit, calls, last,
                   tm_result, loss>>

CanCall == status = "ok" /\ fit.pc # "loop" /\ calls < MaxCalls

EStepCall ==
    /\ CanCall
    /\ posteriors' = EStep(model, batch_emissions)
    /\ last' = [LastNone EXCEPT !.op = "e_step"]
    /\ calls' = calls + 1
    /\ UNCHANGED <<model, status, ctor_args, conc0, batch_emissions,
                   fit, tm_result, loss>>

MStepCall ==
    /\ CanCall
    /\ posteriors # <<>>
    /\ \E num_mstep_iters \in SgdIterChoices :
          \E r \in {MStep(model, batch_emissions, posteriors, num_mstep_iters)} :
              /\ model' = r.model
              /\ last' = [op |-> "m_step", iters |-> num_mstep_iters,
                          error |-> r.error, fresh |-> (last.op = "e_step"),
                          opt_keys |-> r.opt_keys, evals |-> r.evals]
    /\ calls' = calls + 1
    /\ UNCHANGED <<status, ctor_args, conc0, batch_emissions,
                   posteriors, fit, tm_result, loss>>

FitEmStart ==
    /\ CanCall
    /\ \E num_iters \in 0..MaxIters, num_mstep_iters \in SgdIterChoices :
          fit' = [pc |-> "loop", params |-> UnconstrainedParams(model),
                  log_probs |-> <<>>, i |-> 0, num_iters |-> num_iters,
                  mstep_iters |-> num_mstep_iters,
                  loaded |-> <<>>, produced |-> <<>>]
    /\ last' = [LastNone EXCEPT !.op = "fit_em"]
    /\ calls' = calls + 1
    /\ UNCHANGED <<model, status, ctor_args, conc0, batch_emissions,
                   posteriors, tm_result, loss>>

FitEmStep ==
    /\ fit.pc = "loop"
    /\ fit.i < fit.num_iters
    /\ \E r \in {EmStep(model, fit.params, batch_emissions, fit.mstep_iters)} :
           /\ model' = r.model
           /\ last' = [op |-> "em_step", iters |-> fit.mstep_iters,
                       error |-> r.error, fresh |-> TRUE,
                       opt_keys |-> r.opt_keys, evals |-> r.evals]
           /\ IF r.error # ""
              THEN fit' = [fit EXCEPT !.pc = "failed",
                                      !.loaded = Append(@, fit.params)]
              ELSE fit' = [fit EXCEPT !.params = r.params,
                                      !.log_probs = Append(@, r.lp),
                                      !.i = @ + 1,
                                      !.loaded = Append(@, fit.params),
                                      !.produced = Append(@, r.params)]
    /\ UNCHANGED <<status, ctor_args, conc0, batch_emissions, posteriors, calls,
                   tm_result, loss>>

FitEmFinish ==
    /\ fit.pc = "loop"
    /\ fit.i = fit.num_iters
    /\ model' = SetUnconstrainedParams(model, fit.params)
    /\ fit' = [fit EXCEPT !.pc = "done"]
    /\ UNCHANGED <<status, ctor_args, conc0, batch_emissions,
                   posteriors, calls, last, tm_result, loss>>

FitSgdCall ==
    /\ CanCall
    /\ \E num_epochs \in SgdIterChoices, batch_size \in {1, Len(batch_emissions)} :
          LET N == Len(batch_emissions)
              params == UnconstrainedParams(model)
              evals == num_epochs * ((N + batch_size - 1) \div batch_size)
              r == RunSgd("", params, evals)
          IN  /\ model' = SetUnconstrainedParams(model, r.params)
              /\ last' = [op |-> "fit_sgd", iters |-> num_epochs,
                          error |-> r.error, fresh |-> FALSE,
                          opt_keys |-> DOMAIN params, evals |-> evals]
    /\ calls' = calls + 1
    /\ UNCHANGED <<status, ctor_args, conc0, batch_emissions,
                   posteriors, fit, tm_result, loss>>

ComputeTransitionMatricesCall ==
    /\ CanCall
    /\ \E covs \in CovariateChoices :
          LET r == ComputeTransitionMatrices(model, covs)
          IN  tm_result' = [error |-> r.error, shape |-> r.shape,
                            mats |-> r.mats, covs |-> covs]
    /\ last' = [LastNone EXCEPT !.op = "compute_transition_matrices"]
    /\ calls' = calls + 1
    /\ UNCHANGED <<model, status, ctor_args, conc0, batch_emissions,
                   posteriors, fit, loss>>

Next ==
    \/ Construct
    \/ EStepCall
    \/ MStepCall
    \/ FitEmStart
    \/ FitEmStep
    \/ FitEmFinish
    \/ FitSgdCall
    \/ ComputeTransitionMatricesCall

Spec == Init /\ [][Next]_vars

\* ------------------------------------------------ loss-function harness
\* The two loss functions applied to every minibatch of a batch in turn:
\* loss.terms[n] is sequence n's data term (its expected log joint or its
\* marginal log-likelihood), loss.log_prior the log-prior.
LogPriorChoices == {0 - 3, 0, 2}

TermChoices == {0 - 2, 0 - 1}

BatchSize == Len(batch_emissions) * Len(batch_emissions[1])

NumMinibatches == (Len(loss.terms) + loss.batch_size - 1) \div loss.batch_size

Minibatch(j) ==
    LET lo == (j - 1) * loss.batch_size + 1
        hi == IF j * loss.batch_size < Len(loss.terms)
              THEN j * loss.batch_size ELSE Len(loss.terms)
    IN  SubSeq(loss.terms, lo, hi)

LossInit ==
    /\ model = EmptyModel
    /\ status = "unbuilt"
    /\ ctor_args = [initial_shape |-> <<>>, transition_shape |-> <<>>]
    /\ conc0 = [initial |-> <<>>, transition |-> <<>>]
    /\ batch_emissions \in Batches
    /\ posteriors = <<>>
    /\ fit = FitIdle
    /\ calls = 0
    /\ last = LastNone
    /\ tm_result = NoResult
    /\ \E kind \in {"m_step", "fit_sgd"},
          log_prior \in LogPriorChoices,
          terms \in [1..Len(batch_emissions) -> TermChoices],
          batch_size \in 1..Len(batch_emissions) :
          loss = [kind |-> kind, log_prior |-> log_prior, terms |-> terms,
                  batch_size |-> batch_size, vals |-> <<>>]

EvalMStepLoss ==
    /\ loss.kind = "m_step"
    /\ Len(loss.vals) < NumMinibatches
    /\ loss' = [loss EXCEPT !.vals =
                  Append(@, NegExpectedLogJoint(loss.log_prior,
                                                Minibatch(Len(loss.vals) + 1),
                                                Len(loss.terms), BatchSize))]
    /\ UNCHANGED <<model, status, ctor_args, conc0, batch_emissions, posteriors,
                   fit, calls, last, tm_result>>

EvalSgdLoss ==
    /\ loss.kind = "fit_sgd"
    /\ Len(loss.vals) < NumMinibatches
    /\ loss' = [loss EXCEPT !.vals =
                  Append(@, LossFn(loss.log_prior,
                                   Minibatch(Len(loss.vals) + 1),
                                   Len(loss.terms), BatchSize))]
    /\ UNCHANGED <<model, status, ctor_args, conc0, batch_emissions, posteriors,
                   fit, calls, last, tm_result>>

LossNext ==
    \/ EvalMStepLoss
    \/ EvalSgdLoss

LossSpec == LossInit /\ [][LossNext]_vars

\* ================================================================== claims
IsStandard == status = "ok" /\ model.class = "StandardHMM"

\* The Dirichlet posterior mode (alpha_i - 1) / (sum(alpha) - K), alpha in
\* tenths; undefined (NaN) when a component is not above 1 or is itself NaN.
PosteriorMode(alpha, nan) ==
    IF ~nan /\ \A i \in 1..Len(alpha) : alpha[i] > 10
    THEN [num |-> [i \in 1..Len(alpha) |-> alpha[i] - 10],
          den |-> SumSeq(alpha) - 10 * Len(alpha)]
    ELSE [num |-> [i \in 1..Len(alpha) |-> 0], den |-> 0]

PosteriorsNaN == \E n \in 1..Len(posteriors) : posteriors[n].nan

\* alpha of the initial distribution: prior + time-0 smoothed marginals.
InitialAlpha ==
    [i \in 1..Len(conc0.initial) |->
        conc0.initial[i]
        + 10 * SumSeq([n \in 1..Len(posteriors) |-> posteriors[n].smoothed_probs[1][i]])]

\* alpha of row i: prior + time-summed pairwise expectations.
TransitionAlpha(i) ==
    [j \in 1..Len(conc0.transition) |->
        conc0.transition[j]
        + 10 * SumSeq([n \in 1..Len(posteriors) |-> posteriors[n].trans_probs[i][j]])]

ConjugateValuesInPlace ==
    /\ model.value.initial_probs = PosteriorMode(InitialAlpha, PosteriorsNaN)
    /\ \A i \in 1..Len(conc0.transition) :
          model.value.transition_matrix[i] = PosteriorMode(TransitionAlpha(i), PosteriorsNaN)

\* C1 (as stated): every fit_em call ends having performed exactly num_iters
\* iterations, with a trajectory of exactly num_iters entries.
C1_FitEmRunsAllIterations ==
    fit.pc \in {"done", "failed"} =>
        /\ fit.pc = "done"
        /\ fit.i = fit.num_iters
        /\ Len(fit.log_probs) = fit.num_iters

\* C2 (as stated): in every state of a constructed StandardHMM the initial
\* probabilities sum to 1 and every transition-matrix row sums to 1.
C2_ProbabilitiesSumToOne ==
    IsStandard =>
        /\ SumsToOne(model.value.initial_probs)
        /\ \A i \in 1..NumStates(model) : SumsToOne(model.value.transition_matrix[i])

\* C3: the frozen prior concentrations keep their construction-time values
\* through every call, and no frozen parameter is in a vector handed to the
\* optimizer or carried by the EM loop.
C3_FrozenParametersUntouched ==
    status = "ok" =>
        /\ model.value.initial_probs_concentration = conc0.initial
        /\ model.value.transition_matrix_concentration = conc0.transition
        /\ \A n \in last.opt_keys : ~model.is_frozen[n]
        /\ fit.pc # "idle" => \A n \in DOMAIN fit.params : ~model.is_frozen[n]

C3_Witness ==
    /\ IsStandard
    /\ last.op = "m_step"
    /\ last.error = ""
    /\ last.opt_keys # {}
    /\ ~IsNaN(model.value.initial_probs)
    /\ ConjugateValuesInPlace

C5_MinibatchScaling ==
    LET N == Len(loss.terms)
        B == loss.batch_size
        full == 0 - (loss.log_prior + SumSeq(loss.terms))
    IN  loss.kind # "none" =>
          /\ \A j \in 1..Len(loss.vals) :
                LET mb == Minibatch(j)
                IN  /\ loss.vals[j].den = Len(mb) * BatchSize
                    /\ loss.vals[j].num =
                         0 - (loss.log_prior * Len(mb) + SumSeq(mb) * N)
          /\ (Len(loss.vals) = NumMinibatches /\ N % B = 0) =>
                /\ \A j \in 1..Len(loss.vals) : loss.vals[j].den = B * BatchSize
                /\ SumSeq([j \in 1..Len(loss.vals) |-> loss.vals[j].num]) * BatchSize
                     = full * NumMinibatches * (B * BatchSize)
          /\ (Len(loss.vals) = 1 /\ B = N) =>
                loss.vals[1].num * BatchSize = full * loss.vals[1].den

C5_Witness ==
    /\ loss.kind = "m_step"
    /\ loss.log_prior # 0
    /\ Len(loss.terms) % loss.batch_size = 0
    /\ NumMinibatches >= 2
    /\ Len(loss.vals) = NumMinibatches

\* C6 (as stated): when covariates are supplied, the transition statistic is
\* a batched tensor led by the covariate batch size and the E-step calls
\* compute_transition_probs with reduce_sum = FALSE.
C6_CovariatesRetainPerStep ==
    (last.op = "e_step" /\ tm_result.covs # <<>> /\ tm_result.error = "") =>
        /\ Len(tm_result.shape) = 3
        /\ tm_result.shape[1] = Len(tm_result.covs[1])
        /\ \A n \in 1..Len(posteriors) :
              /\ ~posteriors[n].reduce_sum
              /\ posteriors[n].tm_shape = tm_result.shape

\* C7: construction fails, storing nothing, unless the initial-probability
\* shape is (K,) and the transition-matrix shape is (K, K); it succeeds
\* exactly when both agree with K.
C7_ConstructorChecksShapes ==
    status # "unbuilt" =>
        LET K == Last(ctor_args.transition_shape)
            agree == /\ ctor_args.initial_shape = <<K>>
                     /\ ctor_args.transition_shape = <<K, K>>
        IN  /\ (status = "ok") <=> agree
            /\ (status # "ok") =>
                  /\ status = "AssertionError"
                  /\ model = EmptyModel
                  /\ conc0 = [initial |-> <<>>, transition |-> <<>>]
            /\ (status = "ok") => NumStates(model) = K

C7_Witness ==
    /\ status = "AssertionError"
    /\ ctor_args.initial_shape = <<3>>
    /\ ctor_args.transition_shape = <<2, 3>>

\* C8: in every fit_em iteration the recorded log joint is that of the
\* parameters loaded at the iteration's start (E-step over the whole batch,
\* then the record, then the M-step on those posteriors); iteration i+1
\* loads what iteration i produced; on return the model holds what the last
\* iteration produced; and an e_step call leaves every parameter as it was.
C8_LoopState ==
    fit.pc # "idle" =>
        /\ Len(fit.log_probs) = fit.i
        /\ Len(fit.produced) = fit.i
        /\ \A j \in 1..Len(fit.loaded) :
              LET mj == SetUnconstrainedParams(model, fit.loaded[j])
                  posts == EStep(mj, batch_emissions)
              IN  /\ j <= fit.i =>
                        /\ fit.log_probs[j] = LogJoint(mj, posts)
                        /\ fit.produced[j] =
                             UnconstrainedParams(
                                 MStep(mj, batch_emissions, posts, fit.mstep_iters).model)
                  /\ j > 1 => fit.loaded[j] = fit.produced[j - 1]
        /\ (fit.pc = "done" /\ fit.i >= 1 /\ last.op = "em_step") =>
              UnconstrainedParams(model) = fit.produced[fit.i]

C8_EmStepOrder ==
    /\ []C8_LoopState
    /\ [][(calls' = calls + 1 /\ last'.op = "e_step") => model' = model]_vars

C8_Witness ==
    /\ fit.pc = "done"
    /\ last.op = "em_step"
    /\ fit.i = 2
    /\ fit.loaded[2] # fit.loaded[1]
    /\ fit.log_probs[2] # fit.log_probs[1]

\* C9 (as stated): a StandardHMM.m_step whose gradient step runs returns
\* with the initial probabilities and transition matrix at the conjugate
\* step's posterior mode.
C9_GradientStepKeepsConjugateValues ==
    (IsStandard /\ last.op = "m_step" /\ last.iters >= 1) =>
        /\ last.error = ""
        /\ ConjugateValuesInPlace

\* C10: every evaluation of the emission M-step's loss ends in an error, so
\* a StandardHMM.m_step that evaluates it fails, and a fit_em with
\* num_iters >= 1 whose M-step evaluates it never completes an iteration.
C10_EmissionLossAlwaysFails ==
    /\ (IsStandard /\ last.op \in {"m_step", "em_step"} /\ last.evals >= 1) =>
          last.error \in {"AttributeError", "UnboundLocalError"}
    /\ (IsStandard /\ fit.pc # "idle" /\ fit.num_iters >= 1 /\ fit.mstep_iters >= 1) =>
          /\ fit.pc \in {"loop", "failed"}
          /\ fit.i = 0
          /\ fit.log_probs = <<>>

C10_Witness ==
    /\ IsStandard
    /\ fit.pc = "failed"
    /\ fit.num_iters >= 1
    /\ last.op = "em_step"
    /\ last.error = "UnboundLocalError"

====
